---- MODULE Spec2Model ----
(***************************************************************************)
(* Model of the voucher workflow as the screens under src/ implement it:   *)
(*   VoucherScreen   (src/unnamed/part_001): fetchData, handleCreateVoucher,*)
(*                   pickVoucherDocument, submitVoucher, handleViewComments,*)
(*                   addComment, on the Firestore collection 'vouchers';    *)
(*   PublisherScreen (src/unnamed/part_000, from line 1124): fetchVouchers, *)
(*                   uploadPaidPDF, on the Firestore collection 'receipts'. *)
(*   SuperUserScreen (src/unnamed/part_000, to line 1123): updateUser.      *)
(* Every screen instance (one per signed-in device) holds its own React    *)
(* state; the document store and the attachment store are shared.          *)
(* The transitions made by screens whose code is not under src/ (finance,  *)
(* checker, initiator, releaser, administrator) are taken from section 4.1 *)
(* of the specification (VoucherTransition, ReceiptTransition).            *)
(* The two screens work on different collections: SpecVoucher follows the  *)
(* devices on VoucherScreen, SpecPublisher the devices on PublisherScreen. *)
(***************************************************************************)
EXTENDS Integers, Sequences, FiniteSets, TLC

VARIABLES
    dbVouchers,        \* collection 'vouchers': id -> document
    dbReceipts,        \* collection 'receipts': id -> document
    storage,           \* attachment store: the set of blob paths that exist
    now,               \* Date.now()
    designation,       \* users/{uid}.designation
    uid,               \* auth.currentUser.uid of each screen instance
    screen,            \* the screen each instance has mounted
    isLoading,         \* useState isLoading of the screen
    fetching,          \* a fetchData / fetchVouchers call is in flight
    alert,             \* the Alert dialog the screen shows, None when dismissed
    receipts,          \* VoucherScreen: useState receipts (approved list)
    vouchers,          \* VoucherScreen / PublisherScreen: useState vouchers
    selectedReceipt,   \* VoucherScreen: useState selectedReceipt
    voucherFormErrors, \* VoucherScreen: useState voucherFormErrors
    showVoucherModal,  \* VoucherScreen: useState showVoucherModal
    selectedVoucher,   \* VoucherScreen: useState selectedVoucher
    showCommentModal,  \* VoucherScreen: useState showCommentModal
    uploadingId,       \* PublisherScreen: useState uploadingId
    pc,                \* PublisherScreen: position inside uploadPaidPDF, or how
                       \* the last call returned ("idle", "cancelled")
    upl,               \* PublisherScreen: locals of the uploadPaidPDF call in flight
    pending,           \* users/{uid}.pending
    currentUser,       \* AuthProvider: useState currentUser
    userData,          \* AuthProvider: useState userData
    authLoading,       \* AuthProvider: useState isLoading
    error,             \* AuthProvider: useState error
    authEvent,         \* the auth-state changes not yet handed to the listener
    ret,               \* how the last call into the auth context came back
    profileFetch,      \* AuthProvider: the fetchUserData calls in flight
    accounts,          \* Firebase Auth: the uids that have an account
    hasProfile,        \* users/{uid} exists
    approved,          \* users/{uid}.approved
    company,           \* users/{uid}.company
    companies,         \* collection 'companies': the ids that exist
    companiesList,     \* SuperUserScreen: useState companies
    selectedUser,      \* SuperUserScreen: useState selectedUser
    userForm,          \* SuperUserScreen: useState userForm
    del                \* SuperUserScreen: the deleteCompany call in flight

storeVars   == <<dbVouchers, dbReceipts, storage, now, designation>>
authVars    == <<currentUser, userData, authLoading, error, authEvent, ret,
                 profileFetch>>
profileVars == <<accounts, hasProfile, approved, company, companies>>
adminVars   == <<companiesList, selectedUser, userForm, del>>
sessionVars == <<uid, screen, authVars, pending, profileVars, adminVars>>
voucherVars == <<receipts, selectedReceipt, voucherFormErrors, showVoucherModal,
                 selectedVoucher, showCommentModal>>
publishVars == <<uploadingId, pc, upl>>
vars == <<storeVars, sessionVars, isLoading, fetching, alert, vouchers,
          voucherVars, publishVars>>

(***************************** bounds **************************************)
MaxClock    == 1      \* Date.now() ranges over 0..MaxClock
MaxComments == 2      \* longest comments array written
MaxEvents   == 2      \* most auth-state changes waiting for the listener

Sessions   == {"s1", "s2"}
Users      == {"u1", "u2"}
VoucherIds == {"v1"}
ReceiptIds == {"r1"}
None       == "None"   \* null / undefined of a string field
NoVal      == << >>     \* null / undefined of any other field
Some(x)    == <<x>>

(************************** the document store *****************************)
Statuses == {"pending", "approved", "rejected", "voucher_created", "checked",
             "initiated", "payment_released", "payment_initiated",
             "payment_done", "payment_closed"}

\* Section 4.1: the transition graph.
TransitionGraph ==
    { <<"pending", "approved">>, <<"pending", "rejected">>, <<"rejected", "pending">>,
      <<"approved", "voucher_created">>, <<"voucher_created", "checked">>,
      <<"checked", "initiated">>, <<"initiated", "payment_released">>,
      <<"payment_released", "payment_initiated">>,
      <<"payment_initiated", "payment_done">>, <<"payment_done", "payment_closed">> }

\* The edges taken by screens that are not under src/: every edge but
\* createVoucher's and publishPaidProof's.
OtherRoleEdges ==
    TransitionGraph \ { <<"approved", "voucher_created">>,
                        <<"payment_initiated", "payment_done">> }

\* A comment left by a screen that is not under src/ (interface Comment).
FirstComment == [text |-> "c0", createdAt |-> 0, createdBy |-> "u2", role |-> "finance"]

\* The path of the voucher document of a 'receipts' record created before Init.
VoucherPath(d) == <<"vouchers", d, 0>>

InitVoucherDoc ==
    [status |-> "pending", createdAt |-> 0, createdBy |-> "u1", approvedAt |-> NoVal,
     comments |-> <<FirstComment>>, voucherUrl |-> NoVal, ticketNumber |-> NoVal,
     processedBy |-> None]

InitReceiptDoc(d) ==
    [status |-> "payment_released", createdAt |-> 0, pdfUrl |-> VoucherPath(d),
     ticketNumber |-> <<"VOC", d>>, paidPdfUrl |-> NoVal, publishedBy |-> None,
     publishedAt |-> NoVal, comments |-> << >>, createdBy |-> "u1"]

\* { id: docSnap.id, ...docSnap.data() }, cut down to the fields the screens read.
ReceiptItem(d, doc)   == [id |-> d]
VoucherItem(d, doc)   == [id |-> d, comments |-> doc.comments]
PublisherItem(d, doc) == [id |-> d, paidPdfUrl |-> doc.paidPdfUrl]

\* The ids of the items of a list.
Ids(list) == { list[i].id : i \in DOMAIN list }

\* The order of document ids (__name__), as positions in this sequence.
Companies  == {"c1"}
DocumentIds == <<"r1", "r2", "v1">>
IdRank(d) == CHOOSE i \in DOMAIN DocumentIds : DocumentIds[i] = d

\* orderBy(field, 'desc'): the ids S by descending key; documents with the same
\* key come in descending order of their id, the direction of the orderBy.
RECURSIVE OrderByDesc(_, _)
OrderByDesc(key, S) ==
    IF S = {} THEN << >>
    ELSE LET d == CHOOSE x \in S : \A y \in S :
                    \/ key[y] < key[x]
                    \/ key[y] = key[x] /\ IdRank(y) <= IdRank(x)
         IN  <<d>> \o OrderByDesc(key, S \ {d})

(******************************* Init **************************************)
NoErrors == [description |-> FALSE, voucherFile |-> FALSE]
NoUpload == [voucher |-> NoVal, fileName |-> NoVal, paidPdfUrl |-> NoVal]

\* The state after the screens have mounted: every list empty, the mount's fetch
\* in flight.
Mounted ==
    /\ dbVouchers = [d \in VoucherIds |-> InitVoucherDoc]
    /\ dbReceipts = [d \in ReceiptIds |-> InitReceiptDoc(d)]
    /\ storage = { VoucherPath(d) : d \in ReceiptIds }
    /\ now = 0
    /\ uid \in [Sessions -> Users]
    /\ isLoading = [s \in Sessions |-> TRUE]
    /\ fetching = [s \in Sessions |-> TRUE]
    /\ alert = [s \in Sessions |-> None]
    /\ receipts = [s \in Sessions |-> << >>]
    /\ vouchers = [s \in Sessions |-> << >>]
    /\ selectedReceipt = [s \in Sessions |-> NoVal]
    /\ voucherFormErrors = [s \in Sessions |-> NoErrors]
    /\ showVoucherModal = [s \in Sessions |-> FALSE]
    /\ selectedVoucher = [s \in Sessions |-> NoVal]
    /\ showCommentModal = [s \in Sessions |-> FALSE]
    /\ uploadingId = [s \in Sessions |-> None]
    /\ pc = [s \in Sessions |-> "idle"]
    /\ upl = [s \in Sessions |-> NoUpload]

\* What a call into the auth context came back with: the operation, whether one of
\* its catch blocks ran, whether it threw to its caller, and the value returned.
NoRet == [op |-> None, caught |-> FALSE, threw |-> FALSE, value |-> NoVal]

\* users/{uid} as fetchUserData returns it, cut down to the fields that are read.
UserDoc(u) == [designation |-> designation[u], pending |-> pending[u]]

\* deleteCompany's position and locals: the company and the users its query found.
NoDelete == [pc |-> "idle", company |-> None, found |-> {}]

\* SuperUserScreen after mounting: nothing loaded, no modal, no call in flight.
AdminIdle ==
    /\ companiesList = [s \in Sessions |-> {}]
    /\ selectedUser = [s \in Sessions |-> NoVal]
    /\ userForm = [s \in Sessions |->
                    [company |-> None, role |-> None, userType |-> "company"]]
    /\ del = [s \in Sessions |-> NoDelete]

\* The auth context of a device that has signed in an approved user.
SignedIn ==
    /\ pending = [u \in Users |-> FALSE]
    /\ accounts = Users
    /\ hasProfile = [u \in Users |-> TRUE]
    /\ approved = [u \in Users |-> TRUE]
    /\ company = [u \in Users |-> None]
    /\ companies = Companies
    /\ AdminIdle
    /\ profileFetch = [s \in Sessions |-> {}]
    /\ currentUser = uid
    /\ userData = [s \in Sessions |-> Some(UserDoc(uid[s]))]
    /\ authLoading = [s \in Sessions |-> FALSE]
    /\ error = [s \in Sessions |-> None]
    /\ authEvent = [s \in Sessions |-> << >>]
    /\ ret = [s \in Sessions |-> NoRet]

\* Every device on VoucherScreen: AuthLoadingScreen routes designation
\* 'voucher_create', and no other, to 'Voucher'.
InitVoucher ==
    /\ Mounted
    /\ designation = [u \in Users |-> "voucher_create"]
    /\ screen = [s \in Sessions |-> "Voucher"]
    /\ SignedIn

\* Every device on PublisherScreen, signed in while its user was a publisher.
InitPublisher ==
    /\ Mounted
    /\ designation = [u \in Users |-> "publisher"]
    /\ screen = [s \in Sessions |-> "Publisher"]
    /\ SignedIn

(************************** environment ************************************)
Tick ==
    /\ now < MaxClock
    /\ now' = now + 1
    /\ UNCHANGED <<dbVouchers, dbReceipts, storage, designation, sessionVars, isLoading,
                   fetching, alert, vouchers, voucherVars, publishVars>>

\* approve, reject, resubmit, check, initiate, releasePayment, close of section 4.1:
\* guarded by the stored status, one edge per call; approve stamps approvedAt.  On
\* the records that carry it, statusChangedAt keeps the time of the transition
\* (the timestamp of its history entry).
Advance(doc, to) ==
    IF to = "approved" /\ "approvedAt" \in DOMAIN doc
    THEN [doc EXCEPT !.status = to, !.approvedAt = Some(now)]
    ELSE IF "statusChangedAt" \in DOMAIN doc
    THEN [doc EXCEPT !.status = to, !.statusChangedAt = now]
    ELSE [doc EXCEPT !.status = to]

VoucherTransition ==
    /\ \E d \in VoucherIds, e \in OtherRoleEdges :
         /\ dbVouchers[d].status = e[1]
         /\ dbVouchers' = [dbVouchers EXCEPT ![d] = Advance(@, e[2])]
    /\ UNCHANGED <<dbReceipts, storage, now, designation, sessionVars, isLoading,
                   fetching, alert, vouchers, voucherVars, publishVars>>

ReceiptTransition ==
    /\ \E d \in DOMAIN dbReceipts, e \in OtherRoleEdges :
         /\ dbReceipts[d].status = e[1]
         /\ dbReceipts' = [dbReceipts EXCEPT ![d] = Advance(@, e[2])]
    /\ UNCHANGED <<dbVouchers, storage, now, designation, sessionVars, isLoading,
                   fetching, alert, vouchers, voucherVars, publishVars>>

(*************************** SuperUserScreen *******************************)
\* roleOptions of the Edit User modal (lines 487-506).
RoleOptions == {"admin", "payee", "finance", "voucher_create", "checker",
                "initiator", "payment_releaser"}

\* The role options followed here.
AssignedRoles == {"payee"}

\* roleOptions by user type (lines 490-506).
RoleOptionsOf(userType) ==
    CASE userType = "company" -> {"admin", "payee"}
      [] userType = "finance" -> {"finance", "voucher_create"}
      [] OTHER                -> {"checker", "initiator", "payment_releaser"}

UserTypes == {"company", "finance", "zoompay"}

\* The user type under which the modal offers a role.
UserTypeOfRole(role) == CHOOSE ty \in UserTypes : role \in RoleOptionsOf(ty)

\* The updateDoc that approves whether or not the form holds a role.
WriteUserApprovesAlways(u, form) ==
    /\ company' = IF form.userType = "company" /\ form.company # None
                  THEN [company EXCEPT ![u] = form.company]
                  ELSE IF form.userType \in {"finance", "zoompay"}
                  THEN [company EXCEPT ![u] = None]
                  ELSE company
    /\ designation' = IF form.role # None THEN [designation EXCEPT ![u] = form.role]
                      ELSE designation
    /\ pending' = [pending EXCEPT ![u] = FALSE]
    /\ approved' = [approved EXCEPT ![u] = TRUE]

\* The updateDoc of updateUser (lines 187-212) on users/{u} with the form's values:
\* company set with user type company and a company chosen, cleared with user type
\* finance or zoompay, left alone otherwise; with a role, designation = role,
\* pending = false, approved = true.
WriteUser(u, form) ==
    /\ company' = IF form.userType = "company" /\ form.company # None
                  THEN [company EXCEPT ![u] = form.company]
                  ELSE IF form.userType \in {"finance", "zoompay"}
                  THEN [company EXCEPT ![u] = None]
                  ELSE company
    /\ IF form.role # None
       THEN /\ designation' = [designation EXCEPT ![u] = form.role]
            /\ pending' = [pending EXCEPT ![u] = FALSE]
            /\ approved' = [approved EXCEPT ![u] = TRUE]
       ELSE UNCHANGED <<designation, pending, approved>>

\* updateUser on a SuperUserScreen that is not followed: a role of the role options
\* is assigned under its user type, no company is chosen (writing what the document
\* already holds changes nothing).  The devices of the user stay on the screen they
\* have mounted.
updateUser(u, role) ==
    /\ role \in RoleOptions
    /\ hasProfile[u]
    /\ designation[u] # role \/ pending[u]
    /\ WriteUser(u, [userType |-> UserTypeOfRole(role), company |-> None, role |-> role])
    /\ UNCHANGED <<dbVouchers, dbReceipts, storage, now, uid, screen, authVars, isLoading,
                   fetching, alert, vouchers, voucherVars, publishVars, accounts,
                   hasProfile, companies, adminVars>>

(*************************** VoucherScreen *********************************)
\* Alert.alert opens a modal dialog: the screen takes no tap until it is dismissed.
dismissAlert(s) ==
    /\ alert[s] # None
    /\ alert' = [alert EXCEPT ![s] = None]
    /\ UNCHANGED <<storeVars, sessionVars, isLoading, fetching, vouchers, voucherVars,
                   publishVars>>

\* The list behind a dialog, a modal or the loading spinner takes no taps.
ListVisible(s) ==
    alert[s] = None /\ ~isLoading[s] /\ ~showVoucherModal[s] /\ ~showCommentModal[s]

\* getDocs of where('status', '==', 'approved'), orderBy('approvedAt', 'desc'); a
\* document without the orderBy field is not returned.
fetchApprovedReceipts ==
    LET hit == { d \in VoucherIds : /\ dbVouchers[d].status = "approved"
                                     /\ dbVouchers[d].approvedAt # NoVal }
        seq == OrderByDesc([d \in hit |-> dbVouchers[d].approvedAt[1]], hit)
    IN  [i \in 1..Len(seq) |-> ReceiptItem(seq[i], dbVouchers[seq[i]])]

\* getDocs of where('createdBy', '==', auth.currentUser.uid), orderBy('createdAt', 'desc')
fetchCreatedVouchers(s) ==
    LET hit == { d \in VoucherIds : dbVouchers[d].createdBy = uid[s] }
        seq == OrderByDesc([d \in hit |-> dbVouchers[d].createdAt], hit)
    IN  [i \in 1..Len(seq) |-> VoucherItem(seq[i], dbVouchers[seq[i]])]

\* fetchData up to its await: mount, header refresh, pull to refresh.
fetchData(s) ==
    /\ screen[s] = "Voucher"
    /\ ~fetching[s]
    /\ alert[s] = None /\ ~showVoucherModal[s] /\ ~showCommentModal[s]
    /\ isLoading' = [isLoading EXCEPT ![s] = TRUE]
    /\ fetching' = [fetching EXCEPT ![s] = TRUE]
    /\ UNCHANGED <<storeVars, sessionVars, alert, vouchers, voucherVars, publishVars>>

\* fetchData after Promise.all: each query sets its list, or throws to fetchData's
\* catch, which shows the alert.
fetchDataDone(s) ==
    /\ screen[s] = "Voucher"
    /\ fetching[s]
    /\ \E okApproved \in BOOLEAN, okCreated \in BOOLEAN :
         /\ receipts' = IF okApproved THEN [receipts EXCEPT ![s] = fetchApprovedReceipts]
                        ELSE receipts
         /\ vouchers' = IF okCreated THEN [vouchers EXCEPT ![s] = fetchCreatedVouchers(s)]
                        ELSE vouchers
         /\ alert' = IF okApproved /\ okCreated THEN alert
                     ELSE [alert EXCEPT ![s] = "Failed to load data"]
    /\ isLoading' = [isLoading EXCEPT ![s] = FALSE]
    /\ fetching' = [fetching EXCEPT ![s] = FALSE]
    /\ UNCHANGED <<storeVars, sessionVars, selectedReceipt, voucherFormErrors,
                   showVoucherModal, selectedVoucher, showCommentModal, publishVars>>

handleCreateVoucher(s, i) ==
    /\ screen[s] = "Voucher"
    /\ ListVisible(s)
    /\ i \in DOMAIN receipts[s]
    /\ selectedReceipt' = [selectedReceipt EXCEPT ![s] = Some(receipts[s][i])]
    /\ voucherFormErrors' = [voucherFormErrors EXCEPT ![s] = NoErrors]
    /\ showVoucherModal' = [showVoucherModal EXCEPT ![s] = TRUE]
    /\ UNCHANGED <<storeVars, sessionVars, isLoading, fetching, alert, vouchers, receipts,
                   selectedVoucher, showCommentModal, publishVars>>

\* onRequestClose / the close button of the Create Voucher modal.
closeVoucherModal(s) ==
    /\ showVoucherModal[s]
    /\ alert[s] = None
    /\ showVoucherModal' = [showVoucherModal EXCEPT ![s] = FALSE]
    /\ UNCHANGED <<storeVars, sessionVars, isLoading, fetching, alert, vouchers, receipts,
                   selectedReceipt, voucherFormErrors, selectedVoucher,
                   showCommentModal, publishVars>>

\* pickVoucherDocument: the picker's callback stores { uri } and nothing else, so the
\* file has no name and no mimeType; a cancelled or failed pick leaves null.
PickedFile == [uri |-> "uri", name |-> None]

\* The values of voucherForm when Create Voucher is pressed: description (blank or
\* not, after trim) and voucherFile (null, or what pickVoucherDocument stored).
VoucherForms == [description : BOOLEAN, voucherFile : {NoVal, Some(PickedFile)}]

\* `VOC${Date.now().toString().slice(-6)}`: the last six decimal digits of the clock.
TicketNumber(t) == <<"VOC", t % 1000000>>

\* submitVoucher without the file check of lines 260 and 267 and without the throw of
\* line 306: a form without a file goes on with voucherUrl = ''.
submitVoucherNoFileCheck(s, form) ==
    /\ screen[s] = "Voucher"
    /\ showVoucherModal[s]
    /\ alert[s] = None
    /\ selectedReceipt[s] # NoVal
    /\ IF ~form.description
       THEN /\ voucherFormErrors' =
                 [voucherFormErrors EXCEPT ![s] =
                     [description |-> TRUE, voucherFile |-> FALSE]]
            /\ UNCHANGED <<dbVouchers, showVoucherModal, fetching, alert>>
       ELSE IF form.voucherFile # NoVal
       THEN /\ alert' = [alert EXCEPT ![s] = "Failed to create voucher"]
            /\ UNCHANGED <<dbVouchers, voucherFormErrors, showVoucherModal, fetching>>
       ELSE /\ alert' = [alert EXCEPT ![s] = "Voucher created successfully"]
            /\ dbVouchers' = [dbVouchers EXCEPT ![selectedReceipt[s][1].id] =
                 [@ EXCEPT !.status = "voucher_created", !.processedBy = uid[s],
                           !.ticketNumber = TicketNumber(now)]]
            /\ showVoucherModal' = [showVoucherModal EXCEPT ![s] = FALSE]
            /\ fetching' = [fetching EXCEPT ![s] = TRUE]
            /\ UNCHANGED voucherFormErrors
    /\ UNCHANGED <<dbReceipts, storage, now, designation, sessionVars, isLoading,
                   vouchers, receipts, selectedReceipt, selectedVoucher,
                   showCommentModal, publishVars>>

\* submitVoucher.  Lines 260-273: a blank description or no file sets the form
\* errors and returns.  Otherwise line 281 destructures { uri, mimeType, name } from
\* voucherForm.voucherFile, which pickVoucherDocument (line 246) only ever sets to
\* { uri }: name is undefined, and name.split('.') at line 285 throws a TypeError
\* before the fetch of line 290.  The catch of line 327 shows the error alert, the
\* modal stays open; the upload of lines 290-300 and the updateDoc of lines 313-321
\* run only for a file that carries a name.
submitVoucher(s, form) ==
    /\ screen[s] = "Voucher"
    /\ showVoucherModal[s]
    /\ alert[s] = None
    /\ selectedReceipt[s] # NoVal
    /\ LET d    == selectedReceipt[s][1].id
           path == <<"vouchers", now, uid[s]>>
       IN
       IF ~form.description \/ form.voucherFile = NoVal
       THEN /\ voucherFormErrors' =
                 [voucherFormErrors EXCEPT ![s] =
                     [description |-> ~form.description,
                      voucherFile |-> form.voucherFile = NoVal]]
            /\ UNCHANGED <<dbVouchers, storage, showVoucherModal, isLoading, fetching,
                           alert>>
       ELSE IF form.voucherFile[1].name = None
       THEN /\ alert' = [alert EXCEPT ![s] = "Failed to create voucher"]
            /\ UNCHANGED <<dbVouchers, storage, voucherFormErrors, showVoucherModal,
                           isLoading, fetching>>
       ELSE \/ /\ alert' = [alert EXCEPT ![s] = "Voucher created successfully"]
               /\ storage' = storage \cup {path}
               /\ dbVouchers' = [dbVouchers EXCEPT ![d] =
                    [@ EXCEPT !.voucherUrl = path, !.status = "voucher_created",
                              !.processedBy = uid[s],
                              !.ticketNumber = TicketNumber(now)]]
               /\ showVoucherModal' = [showVoucherModal EXCEPT ![s] = FALSE]
               /\ isLoading' = [isLoading EXCEPT ![s] = TRUE]
               /\ fetching' = [fetching EXCEPT ![s] = TRUE]
               /\ UNCHANGED voucherFormErrors
            \/ /\ alert' = [alert EXCEPT ![s] = "Failed to create voucher"]
               /\ storage' \in {storage, storage \cup {path}}
               /\ UNCHANGED <<dbVouchers, voucherFormErrors, showVoucherModal,
                              isLoading, fetching>>
    /\ UNCHANGED <<dbReceipts, now, designation, sessionVars, vouchers, receipts,
                   selectedReceipt, selectedVoucher, showCommentModal,
                   publishVars>>

\* The comments button is rendered for items with comments.length > 0 only.
handleViewComments(s, i) ==
    /\ screen[s] = "Voucher"
    /\ ListVisible(s)
    /\ i \in DOMAIN vouchers[s]
    /\ Len(vouchers[s][i].comments) > 0
    /\ selectedVoucher' = [selectedVoucher EXCEPT ![s] = Some(vouchers[s][i])]
    /\ showCommentModal' = [showCommentModal EXCEPT ![s] = TRUE]
    /\ UNCHANGED <<storeVars, sessionVars, isLoading, fetching, alert, vouchers, receipts,
                   selectedReceipt, voucherFormErrors, showVoucherModal, publishVars>>

closeCommentModal(s) ==
    /\ showCommentModal[s]
    /\ alert[s] = None
    /\ showCommentModal' = [showCommentModal EXCEPT ![s] = FALSE]
    /\ UNCHANGED <<storeVars, sessionVars, isLoading, fetching, alert, vouchers, receipts,
                   selectedReceipt, voucherFormErrors, showVoucherModal,
                   selectedVoucher, publishVars>>

\* The texts typed into the comment input; "" stands for a blank one.
CommentTexts == {"", "text"}

\* addComment writing with setDoc in place of updateDoc: the document is replaced
\* by { comments }, every other field of it is gone.
addCommentSetDoc(s, comment) ==
    /\ screen[s] = "Voucher"
    /\ showCommentModal[s]
    /\ selectedVoucher[s] # NoVal
    /\ comment # ""
    /\ alert[s] = None /\ ~isLoading[s]
    /\ Len(selectedVoucher[s][1].comments) < MaxComments
    /\ LET d == selectedVoucher[s][1].id
           newComment == [text |-> comment, createdAt |-> now,
                          createdBy |-> uid[s], role |-> "voucher"]
       IN
       \/ /\ dbVouchers' = [dbVouchers EXCEPT ![d] =
                 [status |-> None, createdAt |-> 0, createdBy |-> None,
                  approvedAt |-> NoVal, voucherUrl |-> NoVal, ticketNumber |-> NoVal,
                  processedBy |-> None,
                  comments |-> Append(selectedVoucher[s][1].comments, newComment)]]
          /\ showCommentModal' = [showCommentModal EXCEPT ![s] = FALSE]
          /\ fetching' = [fetching EXCEPT ![s] = TRUE]
          /\ alert' = [alert EXCEPT ![s] = "Comment added successfully"]
       \/ /\ alert' = [alert EXCEPT ![s] = "Failed to add comment"]
          /\ UNCHANGED <<dbVouchers, showCommentModal, fetching>>
    /\ UNCHANGED <<dbReceipts, storage, now, designation, sessionVars, isLoading,
                   vouchers, receipts, selectedReceipt, voucherFormErrors,
                   showVoucherModal, selectedVoucher, publishVars>>

\* addComment: the array written is the selected list item's comments plus the new
\* one.  On success the modal closes and fetchData() is started, not awaited; the
\* finally clears isLoading while that fetch is in flight.
addComment(s, comment) ==
    /\ screen[s] = "Voucher"
    /\ showCommentModal[s]
    /\ selectedVoucher[s] # NoVal
    /\ comment # ""
    /\ alert[s] = None /\ ~isLoading[s]
    /\ Len(selectedVoucher[s][1].comments) < MaxComments
    /\ LET d == selectedVoucher[s][1].id
           newComment == [text |-> comment, createdAt |-> now,
                          createdBy |-> uid[s], role |-> "voucher"]
       IN
       \/ /\ dbVouchers' = [dbVouchers EXCEPT ![d].comments =
                               Append(selectedVoucher[s][1].comments, newComment)]
          /\ showCommentModal' = [showCommentModal EXCEPT ![s] = FALSE]
          /\ fetching' = [fetching EXCEPT ![s] = TRUE]
          /\ alert' = [alert EXCEPT ![s] = "Comment added successfully"]
       \/ /\ alert' = [alert EXCEPT ![s] = "Failed to add comment"]
          /\ UNCHANGED <<dbVouchers, showCommentModal, fetching>>
    /\ UNCHANGED <<dbReceipts, storage, now, designation, sessionVars, isLoading,
                   vouchers, receipts, selectedReceipt, voucherFormErrors,
                   showVoucherModal, selectedVoucher, publishVars>>

(************************** PublisherScreen ********************************)
\* fetchVouchers' query without its where clause: every receipt, newest first.
PaymentInitiatedNoWhere ==
    LET hit == DOMAIN dbReceipts
        seq == OrderByDesc([d \in hit |-> dbReceipts[d].createdAt], hit)
    IN  [i \in 1..Len(seq) |-> PublisherItem(seq[i], dbReceipts[seq[i]])]

\* getDocs of where('status', '==', 'payment_initiated'), orderBy('createdAt', 'desc')
PaymentInitiated ==
    LET hit == { d \in DOMAIN dbReceipts : dbReceipts[d].status = "payment_initiated" }
        seq == OrderByDesc([d \in hit |-> dbReceipts[d].createdAt], hit)
    IN  [i \in 1..Len(seq) |-> PublisherItem(seq[i], dbReceipts[seq[i]])]

\* fetchVouchers up to its await: mount, header refresh, pull to refresh.
fetchVouchers(s) ==
    /\ screen[s] = "Publisher"
    /\ ~fetching[s]
    /\ alert[s] = None
    /\ isLoading' = [isLoading EXCEPT ![s] = TRUE]
    /\ fetching' = [fetching EXCEPT ![s] = TRUE]
    /\ UNCHANGED <<storeVars, sessionVars, alert, vouchers, voucherVars, publishVars>>

\* fetchVouchers over a store that returns documents with the same createdAt in
\* any order.
fetchVouchersDoneAnyTieOrder(s) ==
    /\ screen[s] = "Publisher"
    /\ fetching[s]
    /\ \/ \E q \in [1..Len(PaymentInitiated) -> Ids(PaymentInitiated)] :
            /\ \A i \in DOMAIN q, j \in DOMAIN q :
                 i < j => /\ q[i] # q[j]
                          /\ dbReceipts[q[i]].createdAt >= dbReceipts[q[j]].createdAt
            /\ vouchers' = [vouchers EXCEPT ![s] =
                   [i \in DOMAIN q |-> PublisherItem(q[i], dbReceipts[q[i]])]]
            /\ UNCHANGED alert
       \/ /\ alert' = [alert EXCEPT ![s] = "Could not load vouchers"]
          /\ UNCHANGED vouchers
    /\ isLoading' = [isLoading EXCEPT ![s] = FALSE]
    /\ fetching' = [fetching EXCEPT ![s] = FALSE]
    /\ UNCHANGED <<storeVars, sessionVars, voucherVars, publishVars>>

\* fetchVouchers after getDocs: the list is set, or the catch shows the alert.
fetchVouchersDone(s) ==
    /\ screen[s] = "Publisher"
    /\ fetching[s]
    /\ \/ /\ vouchers' = [vouchers EXCEPT ![s] = PaymentInitiated]
          /\ UNCHANGED alert
       \/ /\ alert' = [alert EXCEPT ![s] = "Could not load vouchers"]
          /\ UNCHANGED vouchers
    /\ isLoading' = [isLoading EXCEPT ![s] = FALSE]
    /\ fetching' = [fetching EXCEPT ![s] = FALSE]
    /\ UNCHANGED <<storeVars, sessionVars, voucherVars, publishVars>>

\* `paid_vouchers/${voucher.id}-${Date.now()}.pdf`
PaidPath(d, t) == <<"paid_vouchers", d, t>>

\* setUploadingId(null) at the end of uploadPaidPDF; the call's locals are gone.
setUploadingIdNull(s) ==
    /\ uploadingId' = [uploadingId EXCEPT ![s] = None]
    /\ pc' = [pc EXCEPT ![s] = "idle"]
    /\ upl' = [upl EXCEPT ![s] = NoUpload]

\* The catch of uploadPaidPDF (lines 1247-1249) and the setUploadingId(null) after it.
UploadFailed(s) ==
    /\ alert' = [alert EXCEPT ![s] = "Failed to upload paid PDF"]
    /\ setUploadingIdNull(s)

\* uploadPaidPDF(voucher) up to the picker: the button is rendered for a list item
\* without paidPdfUrl and is disabled while uploadingId is the item's id.
uploadPaidPDF(s, i) ==
    /\ screen[s] = "Publisher"
    /\ pc[s] \in {"idle", "cancelled"}
    /\ alert[s] = None /\ ~isLoading[s]
    /\ i \in DOMAIN vouchers[s]
    /\ vouchers[s][i].paidPdfUrl = NoVal
    /\ uploadingId[s] # vouchers[s][i].id
    /\ uploadingId' = [uploadingId EXCEPT ![s] = vouchers[s][i].id]
    /\ upl' = [upl EXCEPT ![s] = [NoUpload EXCEPT !.voucher = Some(vouchers[s][i])]]
    /\ pc' = [pc EXCEPT ![s] = "picker"]
    /\ UNCHANGED <<storeVars, sessionVars, isLoading, fetching, alert, vouchers,
                   voucherVars>>

\* launchImageLibrary with a bare return in the cancelled branch: uploadingId keeps
\* the id of the voucher.
launchImageLibraryKeepsMarker(s) ==
    /\ pc[s] = "picker"
    /\ \/ /\ pc' = [pc EXCEPT ![s] = "cancelled"]
          /\ upl' = [upl EXCEPT ![s] = NoUpload]
          /\ UNCHANGED <<storage, uploadingId>>
       \/ /\ pc' = [pc EXCEPT ![s] = "upload"]
          /\ storage' \in {storage, storage \cup {PaidPath(upl[s].voucher[1].id, now)}}
          /\ UNCHANGED <<uploadingId, upl>>
    /\ UNCHANGED <<dbVouchers, dbReceipts, now, designation, sessionVars, isLoading,
                   fetching, alert, vouchers, voucherVars>>

\* The picker returns.  Cancelled or without assets: setUploadingId(null), return
\* (lines 1223-1227; pc is "cancelled" until the next call, "idle" after a call
\* that went on to line 1250).
\* With a file, the picker's callback (lines 1210-1221) uploads the blob on its own
\* to a paid_vouchers path and touches no document; that upload may fail.
launchImageLibrary(s) ==
    /\ pc[s] = "picker"
    /\ \/ /\ uploadingId' = [uploadingId EXCEPT ![s] = None]
          /\ pc' = [pc EXCEPT ![s] = "cancelled"]
          /\ upl' = [upl EXCEPT ![s] = NoUpload]
          /\ UNCHANGED storage
       \/ /\ pc' = [pc EXCEPT ![s] = "upload"]
          /\ storage' \in {storage, storage \cup {PaidPath(upl[s].voucher[1].id, now)}}
          /\ UNCHANGED <<uploadingId, upl>>
    /\ UNCHANGED <<dbVouchers, dbReceipts, now, designation, sessionVars, isLoading,
                   fetching, alert, vouchers, voucherVars>>

\* uploadBytes without its await: the call goes on to getDownloadURL whether or not
\* the blob has been stored.
uploadBytesNotAwaited(s) ==
    /\ pc[s] = "upload"
    /\ storage' \in {storage, storage \cup {PaidPath(upl[s].voucher[1].id, now)}}
    /\ upl' = [upl EXCEPT ![s].fileName = PaidPath(upl[s].voucher[1].id, now)]
    /\ pc' = [pc EXCEPT ![s] = "url"]
    /\ UNCHANGED <<dbVouchers, dbReceipts, now, designation, sessionVars, isLoading,
                   fetching, alert, uploadingId, vouchers, voucherVars>>

\* Lines 1230-1235: fetch(uri), blob(), uploadBytes; any of them may throw.
uploadBytes(s) ==
    /\ pc[s] = "upload"
    /\ \/ /\ storage' = storage \cup {PaidPath(upl[s].voucher[1].id, now)}
          /\ upl' = [upl EXCEPT ![s].fileName = PaidPath(upl[s].voucher[1].id, now)]
          /\ pc' = [pc EXCEPT ![s] = "url"]
          /\ UNCHANGED <<uploadingId, alert>>
       \/ /\ UploadFailed(s)
          /\ UNCHANGED storage
    /\ UNCHANGED <<dbVouchers, dbReceipts, now, designation, sessionVars, isLoading,
                   fetching, vouchers, voucherVars>>

\* getDownloadURL with its failure swallowed: the call goes on to updateDoc with
\* paidPdfUrl undefined.
getDownloadURLSwallowed(s) ==
    /\ pc[s] = "url"
    /\ upl' \in {upl, [upl EXCEPT ![s].paidPdfUrl = upl[s].fileName]}
    /\ pc' = [pc EXCEPT ![s] = "write"]
    /\ UNCHANGED <<storeVars, sessionVars, isLoading, fetching, alert, uploadingId,
                   vouchers, voucherVars>>

\* Line 1236: getDownloadURL(storageRef); it may throw.
getDownloadURL(s) ==
    /\ pc[s] = "url"
    /\ \/ /\ upl' = [upl EXCEPT ![s].paidPdfUrl = upl[s].fileName]
          /\ pc' = [pc EXCEPT ![s] = "write"]
          /\ UNCHANGED <<uploadingId, alert>>
       \/ UploadFailed(s)
    /\ UNCHANGED <<storeVars, sessionVars, isLoading, fetching, vouchers, voucherVars>>

\* Lines 1238-1250: updateDoc, the success alert, fetchVouchers() not awaited, then
\* setUploadingId(null); updateDoc may throw.
updatePaidDoc(s) ==
    /\ pc[s] = "write"
    /\ \/ /\ dbReceipts' = [dbReceipts EXCEPT ![upl[s].voucher[1].id] =
                 [@ EXCEPT !.paidPdfUrl = upl[s].paidPdfUrl, !.status = "payment_done",
                           !.publishedBy = uid[s], !.publishedAt = Some(now)]]
          /\ isLoading' = [isLoading EXCEPT ![s] = TRUE]
          /\ fetching' = [fetching EXCEPT ![s] = TRUE]
          /\ alert' = [alert EXCEPT ![s] = "Paid PDF uploaded and status updated"]
          /\ setUploadingIdNull(s)
       \/ /\ UploadFailed(s)
          /\ UNCHANGED <<dbReceipts, isLoading, fetching>>
    /\ UNCHANGED <<dbVouchers, storage, now, designation, sessionVars, vouchers,
                   voucherVars>>

(***************** AuthProvider, AppHeader, AuthLoadingScreen ****************)
\* The device that is followed through the auth context.
AuthSessions == {"s1"}

\* The devices that start the app: SplashScreen is shown, the first
\* onAuthStateChanged callback is due.  u1 is an approved voucher creator, u2 has
\* signed up (pending: true, no designation) and waits for the administrator; a
\* device is signed out, or still signed in as u2 from the sign-up; or u2 has no
\* account yet.  r1 is a receipt of u1 that finance has not yet looked at.
InitAuth ==
    /\ dbVouchers = [d \in VoucherIds |-> InitVoucherDoc]
    /\ dbReceipts = [d \in ReceiptIds |->
                       [InitReceiptDoc(d) EXCEPT !.status = "pending", !.pdfUrl = NoVal,
                                                 !.ticketNumber = NoVal]]
    /\ storage = {}
    /\ now = 0
    /\ designation = [u \in Users |-> IF u = "u1" THEN "voucher_create" ELSE None]
    /\ accounts \in {{"u1"}, Users}
    /\ hasProfile = [u \in Users |-> u \in accounts]
    /\ pending = [u \in Users |-> u # "u1" /\ u \in accounts]
    /\ approved = [u \in Users |-> u = "u1"]
    /\ company = [u \in Users |-> None]
    /\ companies = Companies
    /\ AdminIdle
    /\ profileFetch = [s \in Sessions |-> {}]
    /\ uid \in [Sessions -> {None} \cup (accounts \ {"u1"})]
    /\ \A s \in Sessions \ AuthSessions : uid[s] = None
    /\ screen = [s \in Sessions |-> "Splash"]
    /\ currentUser = [s \in Sessions |-> None]
    /\ userData = [s \in Sessions |-> NoVal]
    /\ authLoading = [s \in Sessions |-> TRUE]
    /\ error = [s \in Sessions |-> None]
    /\ authEvent = [s \in Sessions |-> <<uid[s]>>]
    /\ ret = [s \in Sessions |-> NoRet]
    /\ isLoading = [s \in Sessions |-> TRUE]
    /\ fetching = [s \in Sessions |-> TRUE]
    /\ alert = [s \in Sessions |-> None]
    /\ receipts = [s \in Sessions |-> << >>]
    /\ vouchers = [s \in Sessions |-> << >>]
    /\ selectedReceipt = [s \in Sessions |-> NoVal]
    /\ voucherFormErrors = [s \in Sessions |-> NoErrors]
    /\ showVoucherModal = [s \in Sessions |-> FALSE]
    /\ selectedVoucher = [s \in Sessions |-> NoVal]
    /\ showCommentModal = [s \in Sessions |-> FALSE]
    /\ uploadingId = [s \in Sessions |-> None]
    /\ pc = [s \in Sessions |-> "idle"]
    /\ upl = [s \in Sessions |-> NoUpload]

\* What the auth actions leave alone: the stores and the state of the role screens.
authFrame == <<dbVouchers, dbReceipts, storage, now, designation, pending, profileVars,
               adminVars, isLoading, fetching, vouchers, voucherVars, publishVars>>

\* Firebase Auth hands every change of the signed-in user to the listener of
\* AuthContext line 70, in order.
CanEmit(s) == Len(authEvent[s]) < MaxEvents
Emit(s, user) == authEvent' = [authEvent EXCEPT ![s] = Append(@, user)]

\* AuthContext lines 69-92, the callback of onAuthStateChanged up to its await:
\* setCurrentUser(user); with a user setIsLoading(true) and fetchUserData is called,
\* without one setUserData(null) and setIsLoading(false).
onAuthStateChanged(s) ==
    /\ authEvent[s] # << >>
    /\ LET user == Head(authEvent[s])
       IN  /\ authEvent' = [authEvent EXCEPT ![s] = Tail(@)]
           /\ currentUser' = [currentUser EXCEPT ![s] = user]
           /\ IF user # None
              THEN /\ authLoading' = [authLoading EXCEPT ![s] = TRUE]
                   /\ profileFetch' = [profileFetch EXCEPT ![s] =
                                         @ \cup {[by |-> "callback", user |-> user]}]
                   /\ UNCHANGED userData
              ELSE /\ authLoading' = [authLoading EXCEPT ![s] = FALSE]
                   /\ userData' = [userData EXCEPT ![s] = NoVal]
                   /\ UNCHANGED profileFetch
    /\ UNCHANGED <<authFrame, uid, screen, error, ret, alert>>

\* What get() of fetchUserData (lines 52-67) yields for user u: the document, or
\* null when there is none or when get() threw (caught there, logged to the console).
Fetched(u, ok) == IF ok /\ hasProfile[u] THEN Some(UserDoc(u)) ELSE NoVal

\* The callback's fetch that leaves isLoading alone when it has no data.
fetchUserDataDoneNoFinally(s) ==
    /\ \E f \in { g \in profileFetch[s] : g.by = "callback" }, ok \in BOOLEAN :
         /\ profileFetch' = [profileFetch EXCEPT ![s] = @ \ {f}]
         /\ userData' = [userData EXCEPT ![s] = Fetched(f.user, ok)]
         /\ authLoading' = [authLoading EXCEPT ![s] =
                              IF Fetched(f.user, ok) = NoVal THEN @ ELSE FALSE]
         /\ ret' = [ret EXCEPT ![s] = [op |-> "fetchUserData", caught |-> ~ok,
                                      threw |-> FALSE, value |-> Fetched(f.user, ok)]]
    /\ UNCHANGED <<authFrame, uid, screen, currentUser, error, authEvent, alert>>

\* AuthContext lines 74-83, the callback after its await: fetchUserData of lines
\* 52-67 has returned the document or null, setUserData(userData), and in finally
\* setIsLoading(false).
fetchUserDataDone(s) ==
    /\ \E f \in { g \in profileFetch[s] : g.by = "callback" }, ok \in BOOLEAN :
         /\ profileFetch' = [profileFetch EXCEPT ![s] = @ \ {f}]
         /\ userData' = [userData EXCEPT ![s] = Fetched(f.user, ok)]
         /\ authLoading' = [authLoading EXCEPT ![s] = FALSE]
         /\ ret' = [ret EXCEPT ![s] = [op |-> "fetchUserData", caught |-> ~ok,
                                      threw |-> FALSE, value |-> Fetched(f.user, ok)]]
    /\ UNCHANGED <<authFrame, uid, screen, currentUser, error, authEvent, alert>>

\* SplashScreen lines 25-46: after the delay, AuthLoading for a signed-in user and
\* Login otherwise.
checkAuthState(s) ==
    /\ screen[s] = "Splash"
    /\ screen' = [screen EXCEPT ![s] = IF currentUser[s] # None THEN "AuthLoading"
                                       ELSE "Login"]
    /\ UNCHANGED <<authFrame, uid, authVars, alert>>

Threw == [op |-> "signIn", caught |-> TRUE, threw |-> TRUE, value |-> NoVal]

\* AuthContext lines 127-131, signIn up to its second await: setError(null),
\* signInWithEmailAndPassword, which may reject (and does without an account), then
\* fetchUserData is called.  One signIn at a time.
signIn(s, u) ==
    /\ screen[s] = "Login"
    /\ alert[s] = None
    /\ CanEmit(s)
    /\ \A f \in profileFetch[s] : f.by # "signIn"
    /\ \E okAuth \in BOOLEAN :
         IF okAuth /\ u \in accounts
         THEN /\ uid' = [uid EXCEPT ![s] = u]
              /\ Emit(s, u)
              /\ profileFetch' = [profileFetch EXCEPT ![s] =
                                    @ \cup {[by |-> "signIn", user |-> u]}]
              /\ error' = [error EXCEPT ![s] = None]
              /\ ret' = [ret EXCEPT ![s] = NoRet]
         ELSE /\ error' = [error EXCEPT ![s] = "sign in failed"]
              /\ ret' = [ret EXCEPT ![s] = Threw]
              /\ UNCHANGED <<uid, authEvent, profileFetch>>
    /\ UNCHANGED <<authFrame, screen, currentUser, userData, authLoading, alert>>

\* signIn whose pending user stays signed in and gets the profile back.
signInDoneNoSignOut(s) ==
    /\ \E f \in { g \in profileFetch[s] : g.by = "signIn" }, okFetch \in BOOLEAN :
         LET data == Fetched(f.user, okFetch)
         IN  /\ profileFetch' = [profileFetch EXCEPT ![s] = @ \ {f}]
             /\ IF data = NoVal
                THEN /\ error' = [error EXCEPT ![s] =
                                    "Failed to fetch user data after login"]
                     /\ ret' = [ret EXCEPT ![s] = Threw]
                     /\ UNCHANGED <<uid, authEvent, userData>>
                ELSE /\ userData' = [userData EXCEPT ![s] = data]
                     /\ ret' = [ret EXCEPT ![s] = [op |-> "signIn", caught |-> FALSE,
                                                  threw |-> FALSE, value |-> data]]
                     /\ UNCHANGED <<uid, authEvent, error>>
    /\ UNCHANGED <<authFrame, screen, currentUser, authLoading, alert>>

\* AuthContext lines 131-151, signIn after fetchUserData has returned: null is
\* thrown as 'Failed to fetch user data after login'; fetchUserData has set userData
\* when there is a document; a pending user or one without designation is signed out
\* (signOut itself may reject) and the pending message is thrown; otherwise the
\* profile is returned.  The catch sets the context's error and rethrows.
signInDone(s) ==
    /\ CanEmit(s)
    /\ \E f \in { g \in profileFetch[s] : g.by = "signIn" },
          okFetch \in BOOLEAN, okSignOut \in BOOLEAN :
         LET data == Fetched(f.user, okFetch)
         IN  /\ profileFetch' = [profileFetch EXCEPT ![s] = @ \ {f}]
             /\ IF data = NoVal
                THEN /\ error' = [error EXCEPT ![s] =
                                    "Failed to fetch user data after login"]
                     /\ ret' = [ret EXCEPT ![s] = Threw]
                     /\ UNCHANGED <<uid, authEvent, userData>>
                ELSE IF data[1].pending \/ data[1].designation = None
                THEN /\ userData' = [userData EXCEPT ![s] = data]
                     /\ ret' = [ret EXCEPT ![s] = Threw]
                     /\ IF okSignOut
                        THEN /\ uid' = [uid EXCEPT ![s] = None]
                             /\ Emit(s, None)
                             /\ error' = [error EXCEPT ![s] =
                                            "Your account is pending approval"]
                        ELSE /\ error' = [error EXCEPT ![s] = "sign out failed"]
                             /\ UNCHANGED <<uid, authEvent>>
                ELSE /\ userData' = [userData EXCEPT ![s] = data]
                     /\ ret' = [ret EXCEPT ![s] = [op |-> "signIn", caught |-> FALSE,
                                                  threw |-> FALSE, value |-> data]]
                     /\ UNCHANGED <<uid, authEvent, error>>
    /\ UNCHANGED <<authFrame, screen, currentUser, authLoading, alert>>

\* What a sign-up form passes as data.designation and data.company.
SignUpDesignations == {None, "publisher"}
SignUpCompanies    == {None} \cup Companies

\* signUp that stores the profile as approved.
signUpApproved(s, u, d, c) ==
    /\ screen[s] = "Login"
    /\ alert[s] = None
    /\ CanEmit(s)
    /\ u \notin accounts
    /\ accounts' = accounts \cup {u}
    /\ uid' = [uid EXCEPT ![s] = u]
    /\ Emit(s, u)
    /\ hasProfile' = [hasProfile EXCEPT ![u] = TRUE]
    /\ designation' = [designation EXCEPT ![u] = d]
    /\ company' = [company EXCEPT ![u] = c]
    /\ pending' = [pending EXCEPT ![u] = FALSE]
    /\ approved' = [approved EXCEPT ![u] = TRUE]
    /\ userData' = [userData EXCEPT ![s] = Some([designation |-> d, pending |-> FALSE])]
    /\ error' = [error EXCEPT ![s] = None]
    /\ ret' = [ret EXCEPT ![s] = [op |-> "signUp", caught |-> FALSE, threw |-> FALSE,
                                 value |-> Some([designation |-> d, pending |-> FALSE])]]
    /\ UNCHANGED <<dbVouchers, dbReceipts, storage, now, companies, adminVars, isLoading,
                   fetching, vouchers, voucherVars, publishVars, screen, currentUser,
                   authLoading, profileFetch, alert>>

\* AuthContext lines 94-125 for a new email: setError(null),
\* createUserWithEmailAndPassword (signs the new user in), set() of users/{uid} with
\* the form's designation and company, pending: true, approved: false, and
\* setUserData of that object.  Either call may reject: the catch sets the context's
\* error and rethrows; after a rejected set() the account is there without profile.
signUp(s, u, d, c) ==
    /\ screen[s] = "Login"
    /\ alert[s] = None
    /\ CanEmit(s)
    /\ u \notin accounts
    /\ \E okCreate \in BOOLEAN, okSet \in BOOLEAN :
         LET data == Some([designation |-> d, pending |-> TRUE])
         IN  /\ IF okCreate
                THEN /\ accounts' = accounts \cup {u}
                     /\ uid' = [uid EXCEPT ![s] = u]
                     /\ Emit(s, u)
                ELSE UNCHANGED <<accounts, uid, authEvent>>
             /\ IF okCreate /\ okSet
                THEN /\ hasProfile' = [hasProfile EXCEPT ![u] = TRUE]
                     /\ designation' = [designation EXCEPT ![u] = d]
                     /\ company' = [company EXCEPT ![u] = c]
                     /\ pending' = [pending EXCEPT ![u] = TRUE]
                     /\ approved' = [approved EXCEPT ![u] = FALSE]
                     /\ userData' = [userData EXCEPT ![s] = data]
                     /\ error' = [error EXCEPT ![s] = None]
                     /\ ret' = [ret EXCEPT ![s] = [op |-> "signUp", caught |-> FALSE,
                                                  threw |-> FALSE, value |-> data]]
                ELSE /\ error' = [error EXCEPT ![s] = "sign up failed"]
                     /\ ret' = [ret EXCEPT ![s] = [op |-> "signUp", caught |-> TRUE,
                                                  threw |-> TRUE, value |-> NoVal]]
                     /\ UNCHANGED <<hasProfile, designation, company, pending, approved,
                                    userData>>
    /\ UNCHANGED <<dbVouchers, dbReceipts, storage, now, companies, adminVars, isLoading,
                   fetching, vouchers, voucherVars, publishVars, screen, currentUser,
                   authLoading, profileFetch, alert>>

\* The Login screen after a signIn that returned: on to AuthLoading.
loginDone(s) ==
    /\ screen[s] = "Login"
    /\ ret[s].op = "signIn" /\ ~ret[s].threw
    /\ uid[s] # None
    /\ screen' = [screen EXCEPT ![s] = "AuthLoading"]
    /\ UNCHANGED <<authFrame, uid, authVars, alert>>

\* AuthLoadingScreen lines 56-75.
Route(d) ==
    CASE d = "superuser"        -> "SuperUser"
      [] d = "admin"            -> "Admin"
      [] d = "finance"          -> "Finance"
      [] d = "voucher_create"   -> "Voucher"
      [] d = "checker"          -> "Checker"
      [] d = "initiator"        -> "InitiatorScreen"
      [] d = "payment_releaser" -> "PaymentReleasorScreen"
      [] d = "payee"            -> "PayeeScreen"
      [] OTHER                  -> "Home"

\* The effect that routes on the designation whatever pending says.
authLoadingEffectNoPendingCheck(s) ==
    /\ screen[s] = "AuthLoading"
    /\ ~authLoading[s]
    /\ IF currentUser[s] = None
       THEN /\ screen' = [screen EXCEPT ![s] = "Splash"]
            /\ UNCHANGED <<uid, authVars, alert>>
       ELSE /\ userData[s] # NoVal
            /\ screen' = [screen EXCEPT ![s] = Route(userData[s][1].designation)]
            /\ UNCHANGED <<uid, authVars, alert>>
    /\ UNCHANGED authFrame

\* AuthLoadingScreen lines 31-81, the effect once the context has loaded.  With a
\* user but without userData it returns and the spinner stays.  A pending user is
\* logged out and told so (the alert does not hold the effect back when the context
\* changes under it); logout() that throws there is an unhandled rejection.
authLoadingEffect(s) ==
    /\ screen[s] = "AuthLoading"
    /\ ~authLoading[s]
    /\ IF currentUser[s] = None
       THEN /\ screen' = [screen EXCEPT ![s] = "Splash"]
            /\ UNCHANGED <<uid, authVars, alert>>
       ELSE /\ userData[s] # NoVal
            /\ IF userData[s][1].pending \/ userData[s][1].designation = None
               THEN /\ alert[s] = None
                    /\ \/ /\ CanEmit(s)
                          /\ uid' = [uid EXCEPT ![s] = None]
                          /\ Emit(s, None)
                          /\ error' = [error EXCEPT ![s] = None]
                          /\ alert' = [alert EXCEPT ![s] = "Account Pending Approval"]
                          /\ UNCHANGED <<screen, currentUser, userData, authLoading,
                                         ret, profileFetch>>
                       \/ /\ error' = [error EXCEPT ![s] = "logout failed"]
                          /\ error'[s] # error[s]
                          /\ UNCHANGED <<uid, screen, currentUser, userData,
                                         authLoading, authEvent, ret, profileFetch,
                                         alert>>
               ELSE /\ screen' = [screen EXCEPT ![s] = Route(userData[s][1].designation)]
                    /\ UNCHANGED <<uid, authVars, alert>>
    /\ UNCHANGED authFrame

\* OK of the pending-approval alert: navigation.replace('Login').
pendingAlertOk(s) ==
    /\ alert[s] = "Account Pending Approval"
    /\ alert' = [alert EXCEPT ![s] = None]
    /\ screen' = [screen EXCEPT ![s] = "Login"]
    /\ UNCHANGED <<authFrame, uid, authVars>>

\* The screens under src/ that render AppHeader.
HeaderScreens == {"SuperUser", "Voucher", "Publisher"}

\* AppHeader lines 35-46 with logout (AuthContext lines 154-162) inside: signOut
\* that rejects sets the context's error and is thrown to handleLogout, whose catch
\* logs it to the console.
handleLogout(s) ==
    /\ screen[s] \in HeaderScreens
    /\ alert[s] = None
    /\ \/ /\ CanEmit(s)
          /\ uid' = [uid EXCEPT ![s] = None]
          /\ Emit(s, None)
          /\ error' = [error EXCEPT ![s] = None]
          /\ screen' = [screen EXCEPT ![s] = "AuthLoading"]
          /\ ret' = [ret EXCEPT ![s] = [op |-> "handleLogout", caught |-> FALSE,
                                       threw |-> FALSE, value |-> NoVal]]
       \/ /\ error' = [error EXCEPT ![s] = "logout failed"]
          /\ ret' = [ret EXCEPT ![s] = [op |-> "handleLogout", caught |-> TRUE,
                                       threw |-> FALSE, value |-> NoVal]]
          /\ UNCHANGED <<uid, authEvent, screen>>
    /\ UNCHANGED <<authFrame, currentUser, userData, authLoading, profileFetch, alert>>

\* The counting loop of getReceiptCounts (lines 173-180) over the receipts of u.
ReceiptCounts(u) ==
    LET n(st) == Cardinality({ d \in DOMAIN dbReceipts :
                                 /\ dbReceipts[d].createdBy = u
                                 /\ dbReceipts[d].status = st })
    IN  [pending |-> n("pending"), approved |-> n("approved"), rejected |-> n("rejected")]

ZeroCounts == [pending |-> 0, approved |-> 0, rejected |-> 0]

\* AuthContext lines 164-187: zero counts without a current user; a query that
\* throws is caught, logged to the console, and zero counts are returned.
getReceiptCounts(s) ==
    /\ \E ok \in BOOLEAN :
         ret' = [ret EXCEPT ![s] =
                   IF currentUser[s] = None
                   THEN [op |-> "getReceiptCounts", caught |-> FALSE, threw |-> FALSE,
                         value |-> Some(ZeroCounts)]
                   ELSE IF ok
                   THEN [op |-> "getReceiptCounts", caught |-> FALSE, threw |-> FALSE,
                         value |-> Some(ReceiptCounts(currentUser[s]))]
                   ELSE [op |-> "getReceiptCounts", caught |-> TRUE, threw |-> FALSE,
                         value |-> Some(ZeroCounts)]]
    /\ ret'[s] # ret[s]
    /\ UNCHANGED <<authFrame, uid, screen, currentUser, userData, authLoading, error,
                   authEvent, profileFetch, alert>>

(***************************** SuperUserScreen ******************************)
\* The device that is followed on SuperUserScreen, and the one that signs up.
AdminSessions  == {"s1"}
SignUpSessions == {"s2"}

\* The category expression at its call sites, on a document's or an item's company
\* and designation: fetchUsers (line 120), the list badge (lines 330-331), the
\* modal's badge (lines 541-543), and the user type the form opens with (lines
\* 313-318).
FetchUsersUserType(c, d) ==
    IF c # None THEN "Company"
    ELSE IF d = "finance" \/ d = "voucher_create" THEN "Finance" ELSE "ZoomPay"

ListBadgeText(c, d) ==
    IF c # None THEN "Company"
    ELSE IF d = "finance" \/ d = "voucher_create" THEN "Finance" ELSE "ZoomPay"

ModalBadgeText(c, d) ==
    IF c # None THEN "Company"
    ELSE IF d = "finance" \/ d = "voucher_create" THEN "Finance" ELSE "ZoomPay"

FormUserType(c, d) ==
    IF c # None THEN "company"
    ELSE IF d = "finance" \/ d = "voucher_create" THEN "finance" ELSE "zoompay"

\* The label of a user type (the radio buttons of lines 556-584).
UserTypeLabel(userType) ==
    CASE userType = "company" -> "Company"
      [] userType = "finance" -> "Finance"
      [] OTHER                -> "ZoomPay"

\* The superuser's device on SuperUserScreen and a device on Login that has no
\* account yet: u1 is the superuser, u2 will sign up.
InitAdmin ==
    /\ dbVouchers = [d \in VoucherIds |-> InitVoucherDoc]
    /\ dbReceipts = [d \in ReceiptIds |-> InitReceiptDoc(d)]
    /\ storage = { VoucherPath(d) : d \in ReceiptIds }
    /\ now = 0
    /\ designation = [u \in Users |-> IF u = "u1" THEN "superuser" ELSE None]
    /\ pending = [u \in Users |-> FALSE]
    /\ accounts = {"u1"}
    /\ hasProfile = [u \in Users |-> u = "u1"]
    /\ approved = [u \in Users |-> u = "u1"]
    /\ company = [u \in Users |-> None]
    /\ companies = Companies
    /\ AdminIdle
    /\ profileFetch = [s \in Sessions |-> {}]
    /\ uid = [s \in Sessions |-> IF s \in AdminSessions THEN "u1" ELSE None]
    /\ screen = [s \in Sessions |-> IF s \in AdminSessions THEN "SuperUser" ELSE "Login"]
    /\ currentUser = uid
    /\ userData = [s \in Sessions |-> IF s \in AdminSessions THEN Some(UserDoc("u1"))
                                      ELSE NoVal]
    /\ authLoading = [s \in Sessions |-> FALSE]
    /\ error = [s \in Sessions |-> None]
    /\ authEvent = [s \in Sessions |-> << >>]
    /\ ret = [s \in Sessions |-> NoRet]
    /\ isLoading = [s \in Sessions |-> FALSE]
    /\ fetching = [s \in Sessions |-> FALSE]
    /\ alert = [s \in Sessions |-> None]
    /\ receipts = [s \in Sessions |-> << >>]
    /\ vouchers = [s \in Sessions |-> << >>]
    /\ selectedReceipt = [s \in Sessions |-> NoVal]
    /\ voucherFormErrors = [s \in Sessions |-> NoErrors]
    /\ showVoucherModal = [s \in Sessions |-> FALSE]
    /\ selectedVoucher = [s \in Sessions |-> NoVal]
    /\ showCommentModal = [s \in Sessions |-> FALSE]
    /\ uploadingId = [s \in Sessions |-> None]
    /\ pc = [s \in Sessions |-> "idle"]
    /\ upl = [s \in Sessions |-> NoUpload]

\* What the actions of SuperUserScreen leave alone.
adminFrame == <<dbVouchers, dbReceipts, storage, now, uid, screen, authVars, accounts,
                hasProfile, isLoading, fetching, vouchers, voucherVars, publishVars>>

\* fetchCompanies (lines 134-152): the companies that exist, or the alert of its
\* catch.
fetchCompanies(s) ==
    /\ screen[s] = "SuperUser"
    /\ alert[s] = None
    /\ \/ /\ companiesList[s] # companies
          /\ companiesList' = [companiesList EXCEPT ![s] = companies]
          /\ UNCHANGED alert
       \/ /\ alert' = [alert EXCEPT ![s] = "Could not load companies"]
          /\ UNCHANGED companiesList
    /\ UNCHANGED <<adminFrame, designation, pending, approved, company, companies,
                   selectedUser, userForm, del>>

\* A tap on the list item of user u (lines 311-326), the item being the document
\* fetchUsers read (lines 107-132): setSelectedUser(item), the form opens with the
\* item's company and designation and with the user type derived from them.
selectUser(s, u) ==
    /\ screen[s] = "SuperUser"
    /\ alert[s] = None
    /\ hasProfile[u]
    /\ selectedUser' = [selectedUser EXCEPT ![s] =
                          Some([id |-> u, company |-> company[u],
                                designation |-> designation[u]])]
    /\ userForm' = [userForm EXCEPT ![s] =
                      [company |-> company[u], role |-> designation[u],
                       userType |-> FormUserType(company[u], designation[u])]]
    /\ selectedUser'[s] # selectedUser[s] \/ userForm'[s] # userForm[s]
    /\ UNCHANGED <<adminFrame, designation, pending, approved, company, companies,
                   companiesList, del, alert>>

ModalOpen(s) == screen[s] = "SuperUser" /\ alert[s] = None /\ selectedUser[s] # NoVal

\* The user type buttons (lines 556-584): Company keeps the company and clears the
\* role, Finance and ZoomPay clear both.
setUserType(s, ty) ==
    /\ ModalOpen(s)
    /\ userForm' = [userForm EXCEPT ![s] =
                      [company |-> IF ty = "company" THEN @.company ELSE None,
                       role |-> None, userType |-> ty]]
    /\ userForm'[s] # userForm[s]
    /\ UNCHANGED <<adminFrame, designation, pending, approved, company, companies,
                   companiesList, selectedUser, del, alert>>

\* The company picker (lines 588-612), shown with user type company, over the
\* companies the screen has loaded.
setCompany(s, c) ==
    /\ ModalOpen(s)
    /\ userForm[s].userType = "company"
    /\ c \in companiesList[s]
    /\ userForm[s].company # c
    /\ userForm' = [userForm EXCEPT ![s].company = c]
    /\ UNCHANGED <<adminFrame, designation, pending, approved, company, companies,
                   companiesList, selectedUser, del, alert>>

\* The role picker (lines 616-640) over the role options of the form's user type.
setRole(s, r) ==
    /\ ModalOpen(s)
    /\ r \in RoleOptionsOf(userForm[s].userType)
    /\ userForm[s].role # r
    /\ userForm' = [userForm EXCEPT ![s].role = r]
    /\ UNCHANGED <<adminFrame, designation, pending, approved, company, companies,
                   companiesList, selectedUser, del, alert>>

EmptyForm == [company |-> None, role |-> None, userType |-> "company"]

\* updateUser (lines 183-225) on the followed screen, from the modal's button
\* (disabled while loading): the updateDoc of the form's values on the selected
\* user's document, then the success alert, the form reset and setSelectedUser(null);
\* an updateDoc that rejects leaves the modal open under the alert of the catch.
updateSelectedUser(s) ==
    /\ ModalOpen(s)
    /\ del[s].pc = "idle"
    /\ \/ /\ hasProfile[selectedUser[s][1].id]
          /\ WriteUser(selectedUser[s][1].id, userForm[s])
          /\ alert' = [alert EXCEPT ![s] = "User updated successfully"]
          /\ userForm' = [userForm EXCEPT ![s] = EmptyForm]
          /\ selectedUser' = [selectedUser EXCEPT ![s] = NoVal]
       \/ /\ alert' = [alert EXCEPT ![s] = "Could not update user"]
          /\ UNCHANGED <<designation, pending, approved, company, userForm,
                         selectedUser>>
    /\ UNCHANGED <<adminFrame, companies, companiesList, del>>

\* updateUser on a SuperUserScreen that is not followed, user type company with a
\* company chosen from the list that screen has loaded, and no role.
updateUserCompany(u, c) ==
    /\ hasProfile[u]
    /\ company[u] # c
    /\ WriteUser(u, [userType |-> "company", company |-> c, role |-> None])
    /\ UNCHANGED <<adminFrame, companies, adminVars, alert>>

DeleteFailed(s) ==
    /\ alert' = [alert EXCEPT ![s] = "Could not delete company"]
    /\ del' = [del EXCEPT ![s] = NoDelete]

\* deleteCompany (lines 228-266) with Delete chosen in its dialog, up to the second
\* await: deleteDoc of companies/{c}.
deleteCompany(s, c) ==
    /\ screen[s] = "SuperUser"
    /\ alert[s] = None
    /\ del[s].pc = "idle"
    /\ c \in companiesList[s]
    /\ \/ /\ companies' = companies \ {c}
          /\ del' = [del EXCEPT ![s] = [pc |-> "getDocs", company |-> c, found |-> {}]]
          /\ UNCHANGED alert
       \/ /\ DeleteFailed(s)
          /\ UNCHANGED companies
    /\ UNCHANGED <<adminFrame, designation, pending, approved, company, companiesList,
                   selectedUser, userForm>>

\* deleteCompany, lines 243-245: getDocs of the users where company == c.
deleteCompanyGetDocs(s) ==
    /\ del[s].pc = "getDocs"
    /\ \/ /\ del' = [del EXCEPT ![s] =
                       [pc |-> "commit", company |-> @.company,
                        found |-> { u \in Users : hasProfile[u]
                                                  /\ company[u] = del[s].company }]]
          /\ UNCHANGED alert
       \/ DeleteFailed(s)
    /\ UNCHANGED <<adminFrame, designation, pending, approved, company, companies,
                   companiesList, selectedUser, userForm>>

\* deleteCompany, lines 247-255: the batch of { company: null } on the users found,
\* batch.commit(), the success alert and the reload of the lists.
deleteCompanyCommit(s) ==
    /\ del[s].pc = "commit"
    /\ \/ /\ company' = [u \in Users |-> IF u \in del[s].found THEN None
                                         ELSE company[u]]
          /\ alert' = [alert EXCEPT ![s] = "Company deleted successfully"]
          /\ del' = [del EXCEPT ![s] = NoDelete]
          /\ companiesList' = [companiesList EXCEPT ![s] = companies]
       \/ /\ DeleteFailed(s)
          /\ UNCHANGED <<company, companiesList>>
    /\ UNCHANGED <<adminFrame, designation, pending, approved, companies, selectedUser,
                   userForm>>

(************************ the publisher's list *****************************)
\* Two receipts in front of a publisher device and a second device of the same
\* user that only loads the list: r1 was created before r2 or together with it
\* (createdAt t1 and -1), both have had their payment released before the devices
\* start.
ViewIds        == {"r1", "r2"}
ViewSessions   == {"s1"}
ReaderSessions == {"s2"}
CreatedAtOfR1  == {0 - 2, 0 - 1}

InitViewDoc(d, t1) ==
    [status |-> "payment_released", createdAt |-> IF d = "r1" THEN t1 ELSE 0 - 1,
     statusChangedAt |-> 0, pdfUrl |-> VoucherPath(d), ticketNumber |-> <<"VOC", d>>,
     paidPdfUrl |-> NoVal, publishedBy |-> None, publishedAt |-> NoVal,
     comments |-> << >>, createdBy |-> "u1"]

InitViews ==
    /\ dbVouchers = [d \in VoucherIds |-> InitVoucherDoc]
    /\ \E t1 \in CreatedAtOfR1 : dbReceipts = [d \in ViewIds |-> InitViewDoc(d, t1)]
    /\ storage = { VoucherPath(d) : d \in ViewIds }
    /\ now = 0
    /\ uid = [s \in Sessions |-> "u1"]
    /\ isLoading = [s \in Sessions |-> TRUE]
    /\ fetching = [s \in Sessions |-> TRUE]
    /\ alert = [s \in Sessions |-> None]
    /\ receipts = [s \in Sessions |-> << >>]
    /\ vouchers = [s \in Sessions |-> << >>]
    /\ selectedReceipt = [s \in Sessions |-> NoVal]
    /\ voucherFormErrors = [s \in Sessions |-> NoErrors]
    /\ showVoucherModal = [s \in Sessions |-> FALSE]
    /\ selectedVoucher = [s \in Sessions |-> NoVal]
    /\ showCommentModal = [s \in Sessions |-> FALSE]
    /\ uploadingId = [s \in Sessions |-> None]
    /\ pc = [s \in Sessions |-> "idle"]
    /\ upl = [s \in Sessions |-> NoUpload]
    /\ designation = [u \in Users |-> "publisher"]
    /\ screen = [s \in Sessions |-> "Publisher"]
    /\ SignedIn

\* Neither screen reads the designation; the administrator's updateUser is followed
\* for the devices on PublisherScreen.
NextVoucher ==
    \/ Tick
    \/ VoucherTransition
    \/ \E s \in Sessions :
         \/ fetchData(s)
         \/ fetchDataDone(s)
         \/ \E i \in 1..Cardinality(VoucherIds) : handleCreateVoucher(s, i)
         \/ closeVoucherModal(s)
         \/ \E form \in VoucherForms : submitVoucher(s, form)
         \/ \E i \in 1..Cardinality(VoucherIds) : handleViewComments(s, i)
         \/ closeCommentModal(s)
         \/ \E comment \in CommentTexts : addComment(s, comment)
         \/ dismissAlert(s)

NextPublisher ==
    \/ Tick
    \/ ReceiptTransition
    \/ \E u \in Users, role \in AssignedRoles : updateUser(u, role)
    \/ \E s \in Sessions :
         \/ fetchVouchers(s)
         \/ fetchVouchersDone(s)
         \/ \E i \in 1..Cardinality(ReceiptIds) : uploadPaidPDF(s, i)
         \/ launchImageLibrary(s)
         \/ uploadBytes(s)
         \/ getDownloadURL(s)
         \/ updatePaidDoc(s)
         \/ dismissAlert(s)

\* The devices from the start of the app to a role screen and back.
NextAuth ==
    \/ \E u \in Users, role \in AssignedRoles : updateUser(u, role)
    \/ \E s \in AuthSessions :
         \/ onAuthStateChanged(s)
         \/ fetchUserDataDone(s)
         \/ checkAuthState(s)
         \/ \E u \in Users : signIn(s, u)
         \/ signInDone(s)
         \/ \E u \in Users, d \in SignUpDesignations, c \in SignUpCompanies :
              signUp(s, u, d, c)
         \/ loginDone(s)
         \/ authLoadingEffect(s)
         \/ pendingAlertOk(s)
         \/ handleLogout(s)
         \/ getReceiptCounts(s)

\* One publisher device and the other roles' transitions on the two receipts.
NextViews ==
    \/ Tick
    \/ ReceiptTransition
    \/ \E s \in ViewSessions :
         \/ fetchVouchers(s)
         \/ fetchVouchersDone(s)
         \/ \E i \in 1..Cardinality(ViewIds) : uploadPaidPDF(s, i)
         \/ launchImageLibrary(s)
         \/ uploadBytes(s)
         \/ getDownloadURL(s)
         \/ updatePaidDoc(s)
         \/ dismissAlert(s)
    \/ \E s \in ReaderSessions :
         \/ fetchVouchers(s)
         \/ fetchVouchersDone(s)
         \/ dismissAlert(s)

SpecVoucher   == InitVoucher /\ [][NextVoucher]_vars
SpecPublisher == InitPublisher /\ [][NextPublisher]_vars
SpecAuth      == InitAuth /\ [][NextAuth]_vars

\* Every auth-state change reaches the listener, and every fetch the listener's
\* callback has begun returns.
SpecAuthLive ==
    /\ SpecAuth
    /\ \A s \in AuthSessions : WF_vars(onAuthStateChanged(s))
    /\ \A s \in AuthSessions : WF_vars(fetchUserDataDone(s))
SpecViews     == InitViews /\ [][NextViews]_vars

\* The superuser's screen, administrators elsewhere, and a user signing up with a
\* form that passes no designation.
NextAdmin ==
    \/ \E u \in Users, role \in AssignedRoles : updateUser(u, role)
    \/ \E u \in Users, c \in Companies : updateUserCompany(u, c)
    \/ \E s \in SignUpSessions, u \in Users, c \in SignUpCompanies :
         signUp(s, u, None, c)
    \/ \E s \in AdminSessions :
         \/ fetchCompanies(s)
         \/ \E u \in Users : selectUser(s, u)
         \/ \E ty \in UserTypes : setUserType(s, ty)
         \/ \E c \in Companies : setCompany(s, c)
         \/ \E r \in RoleOptions : setRole(s, r)
         \/ updateSelectedUser(s)
         \/ \E c \in Companies : deleteCompany(s, c)
         \/ deleteCompanyGetDocs(s)
         \/ deleteCompanyCommit(s)
         \/ dismissAlert(s)

SpecAdmin     == InitAdmin /\ [][NextAdmin]_vars

(******************************* claims ************************************)
VoucherCreatedOrLater ==
    {"voucher_created", "checked", "initiated", "payment_released",
     "payment_initiated", "payment_done", "payment_closed"}
PaymentDoneOrLater == {"payment_done", "payment_closed"}
PaidPaths == { PaidPath(d, t) : d \in ReceiptIds, t \in 0..MaxClock }

IsPrefix(a, b) == Len(a) <= Len(b) /\ SubSeq(b, 1, Len(a)) = a

\* The step that ends the uploadPaidPDF call of s at its updateDoc.
PublishStep(s)    == pc[s] = "write" /\ pc'[s] = "idle"
PublishTarget(s)  == upl[s].voucher[1].id
\* The record has been written since s read the list item it is publishing.
PublishIsStale(s) ==
    \/ dbReceipts[PublishTarget(s)].paidPdfUrl # upl[s].voucher[1].paidPdfUrl
    \/ dbReceipts[PublishTarget(s)].status # "payment_initiated"

\* C1: of two publishPaidProof calls racing on a record from the same list
\* snapshot, only the first changes the record; the one that finds the record
\* already written since it was read changes none of the winner's fields.
C1_LoserWritesNothing ==
    [][\A s \in Sessions :
         (PublishStep(s) /\ PublishIsStale(s)) => UNCHANGED dbReceipts]_vars

\* C3: every change of a record's status is an edge of the transition graph of
\* section 4.1; in particular payment_closed is never left.
C3_StatusFollowsGraph ==
    [][/\ \A d \in ReceiptIds :
            dbReceipts'[d].status # dbReceipts[d].status
              => <<dbReceipts[d].status, dbReceipts'[d].status>> \in TransitionGraph
       /\ \A d \in VoucherIds :
            dbVouchers'[d].status # dbVouchers[d].status
              => <<dbVouchers[d].status, dbVouchers'[d].status>> \in TransitionGraph]_vars

\* C4: a record at voucher_created or later carries a voucher reference that is in
\* the attachment store, and a record at payment_done or later carries a paid-proof
\* reference that is in the attachment store: no state has the status without it.
C4_StatusHasStoredAttachment ==
    /\ \A d \in ReceiptIds :
         /\ dbReceipts[d].status \in VoucherCreatedOrLater
              => dbReceipts[d].pdfUrl \in storage
         /\ dbReceipts[d].status \in PaymentDoneOrLater
              => dbReceipts[d].paidPdfUrl \in storage
    /\ \A d \in VoucherIds :
         dbVouchers[d].status \in VoucherCreatedOrLater
           => dbVouchers[d].voucherUrl \in storage

\* C4 witness: a publish has set payment_done together with a stored paid proof.
C4_Witness ==
    \E d \in ReceiptIds :
      /\ dbReceipts[d].status = "payment_done"
      /\ dbReceipts[d].paidPdfUrl \in storage \cap PaidPaths

\* C5: a publish changes the record only when the acting user's designation is
\* publisher, and a voucher creation only when it is voucher_create.
C5_RoleRequired ==
    [][\A s \in Sessions :
         /\ (PublishStep(s) /\ designation[uid[s]] # "publisher")
              => UNCHANGED dbReceipts
         /\ (showVoucherModal[s] /\ ~showVoucherModal'[s]
               /\ designation[uid[s]] # "voucher_create")
              => UNCHANGED dbVouchers]_vars

\* C6: when the upload of the paid proof stores no blob, or no download URL is
\* obtained, the call ends there: the record is left as it was and no updateDoc
\* follows.
C6_UploadFailureWritesNothing ==
    [][\A s \in Sessions :
         /\ (pc[s] = "upload" /\ pc'[s] # "upload"
               /\ PaidPath(PublishTarget(s), now) \notin storage')
              => (pc'[s] = "idle" /\ UNCHANGED dbReceipts)
         /\ (pc[s] = "url" /\ pc'[s] # "url" /\ upl'[s].paidPdfUrl = NoVal)
              => (pc'[s] = "idle" /\ UNCHANGED dbReceipts)]_vars

\* C6 witness: an uploadPaidPDF call has failed before any blob was stored, and
\* the record is still payment_initiated without a paid proof.
C6_Witness ==
    \E s \in Sessions, d \in ReceiptIds :
      /\ alert[s] = "Failed to upload paid PDF"
      /\ pc[s] = "idle"
      /\ storage \cap PaidPaths = {}
      /\ dbReceipts[d].status = "payment_initiated"
      /\ dbReceipts[d].paidPdfUrl = NoVal

\* C8: a publish that finds the stored record at a status other than
\* payment_initiated leaves its status, attachment references and ticketNumber as
\* they are, also when the list item it started from is older than the record.
C8_WrongStatusUnchanged ==
    [][\A s \in Sessions :
         (PublishStep(s) /\ dbReceipts[PublishTarget(s)].status # "payment_initiated")
           => /\ dbReceipts'[PublishTarget(s)].status = dbReceipts[PublishTarget(s)].status
              /\ dbReceipts'[PublishTarget(s)].paidPdfUrl
                   = dbReceipts[PublishTarget(s)].paidPdfUrl
              /\ dbReceipts'[PublishTarget(s)].pdfUrl = dbReceipts[PublishTarget(s)].pdfUrl
              /\ dbReceipts'[PublishTarget(s)].ticketNumber
                   = dbReceipts[PublishTarget(s)].ticketNumber]_vars

\* C9: submitVoucher with no voucher file sets the form error of the file and
\* returns: nothing is uploaded and no record is written.
C9_NoFileIsValidationError ==
    [][\A s \in Sessions, form \in VoucherForms :
         (form.voucherFile = NoVal /\ submitVoucher(s, form))
           => /\ voucherFormErrors'[s].voucherFile
              /\ UNCHANGED <<dbVouchers, storage>>]_vars

\* C9 witness: Create Voucher was pressed without a file on an approved record;
\* the file error is shown and the record is still approved without a voucher.
C9_Witness ==
    \E s \in Sessions :
      /\ voucherFormErrors[s].voucherFile
      /\ showVoucherModal[s]
      /\ dbVouchers[selectedReceipt[s][1].id].status = "approved"
      /\ dbVouchers[selectedReceipt[s][1].id].voucherUrl = NoVal

\* C10: the comments of a record only grow at the end: every stored comment stays,
\* unmodified and in place, through every addComment.
C10_CommentsAppendOnly ==
    [][\A d \in VoucherIds :
         IsPrefix(dbVouchers[d].comments, dbVouchers'[d].comments)]_vars

\* The entries a record keeps about what was done to it: the comments array is the
\* only sequence a document of either collection holds.
History(doc) == doc.comments

\* C11: a publish that changes the status of the record appends, in the same
\* write, exactly one entry to the record's history.
C11_TransitionAppendsHistory ==
    [][\A s \in Sessions :
         (PublishStep(s)
            /\ dbReceipts'[PublishTarget(s)].status # dbReceipts[PublishTarget(s)].status)
           => Len(History(dbReceipts'[PublishTarget(s)]))
                = Len(History(dbReceipts[PublishTarget(s)])) + 1]_vars

\* C12: addComment, whether its write succeeds or fails, leaves the status, the
\* voucher reference, the ticketNumber and the processing stamp of every record,
\* and the attachment store, as they are.
C12_AddCommentKeepsStatusAndAttachments ==
    [][\A s \in Sessions, comment \in CommentTexts :
         addComment(s, comment)
           => /\ \A d \in VoucherIds :
                   /\ dbVouchers'[d].status = dbVouchers[d].status
                   /\ dbVouchers'[d].voucherUrl = dbVouchers[d].voucherUrl
                   /\ dbVouchers'[d].ticketNumber = dbVouchers[d].ticketNumber
                   /\ dbVouchers'[d].processedBy = dbVouchers[d].processedBy
              /\ UNCHANGED <<dbReceipts, storage>>]_vars

\* C12 witness: a comment has been added to an approved record, which is still
\* approved and still without a voucher.
C12_Witness ==
    \E s \in Sessions, d \in VoucherIds :
      /\ alert[s] = "Comment added successfully"
      /\ Len(dbVouchers[d].comments) = 2
      /\ dbVouchers[d].comments[2].createdBy = uid[s]
      /\ dbVouchers[d].status = "approved"
      /\ dbVouchers[d].voucherUrl = NoVal

\* Section 4.1 and the glossary: the terminal statuses.
TerminalStatuses == {"payment_closed", "rejected"}

\* C13: addComment on a record whose stored status is terminal (payment_closed,
\* or rejected) is not accepted: it appends nothing and leaves the record as it is.
C13_TerminalTakesNoComment ==
    [][\A s \in Sessions, comment \in CommentTexts :
         (addComment(s, comment)
            /\ dbVouchers[selectedVoucher[s][1].id].status \in TerminalStatuses)
           => UNCHANGED dbVouchers]_vars

\* C14: an uploadPaidPDF call that ends before its updateDoc, because the file
\* selection was cancelled or the upload did not complete, writes no record (status,
\* paid-proof reference, publishedBy and publishedAt stay) and clears uploadingId.
C14_CancelLeavesRecord ==
    [][\A s \in Sessions :
         (pc[s] \in {"picker", "upload", "url"} /\ pc'[s] \in {"idle", "cancelled"})
           => /\ UNCHANGED dbReceipts
              /\ uploadingId'[s] = None]_vars

\* C14 witness: the picker of a publish was cancelled; the record is still
\* payment_initiated without paid proof and stamps, no paid proof was uploaded, and
\* the device shows no upload in progress.
C14_Witness ==
    \E s \in Sessions, d \in ReceiptIds :
      /\ pc[s] = "cancelled"
      /\ uploadingId[s] = None
      /\ storage \cap PaidPaths = {}
      /\ dbReceipts[d].status = "payment_initiated"
      /\ dbReceipts[d].paidPdfUrl = NoVal
      /\ dbReceipts[d].publishedBy = None
      /\ dbReceipts[d].publishedAt = NoVal

\* C15: a publish repeated by the actor whose earlier publish of the same record
\* has been applied is a no-op: status, paid-proof reference, ticketNumber and the
\* stamps of the record are after the second call what they were after the first.
C15_RepeatedPublishIsNoOp ==
    [][\A s \in Sessions :
         (PublishStep(s)
            /\ dbReceipts[PublishTarget(s)].status = "payment_done"
            /\ dbReceipts[PublishTarget(s)].publishedBy = uid[s])
           => dbReceipts'[PublishTarget(s)] = dbReceipts[PublishTarget(s)]]_vars

\* C17: no failure is swallowed: whenever a catch block of a call into the auth
\* context has run, the call threw to its caller, or the failure is on the screen
\* as an alert or as the context's error.
C17_NoErrorSwallowed ==
    \A s \in Sessions :
      ret[s].caught => (ret[s].threw \/ alert[s] # None \/ error[s] # None)

\* C18: what VoucherScreen shows after a fetch that loaded both lists is exactly
\* the records with status approved plus the records whose voucher was created by
\* the signed-in user, whatever their status.
C18_CreatorViewIsApprovedPlusOwn ==
    [][\A s \in Sessions :
         (screen[s] = "Voucher" /\ fetching[s] /\ ~fetching'[s] /\ alert'[s] = alert[s])
           => Ids(receipts'[s]) \cup Ids(vouchers'[s])
                = { d \in VoucherIds : \/ dbVouchers[d].status = "approved"
                                       \/ dbVouchers[d].processedBy = uid[s] }]_vars

\* The step in which a fetchVouchers call of s sets the list.
PublisherListLoaded(s) ==
    screen[s] = "Publisher" /\ fetching[s] /\ ~fetching'[s] /\ alert'[s] = alert[s]

\* C19: the list a fetchVouchers call loads holds, once each, exactly the receipts
\* whose stored status is payment_initiated when the query runs; a receipt that a
\* publish has moved to payment_done is not in it, nor is one at any other status.
C19_PublisherViewIsPaymentInitiated ==
    [][\A s \in Sessions :
         PublisherListLoaded(s)
           => /\ Ids(vouchers'[s])
                   = { d \in DOMAIN dbReceipts :
                         dbReceipts[d].status = "payment_initiated" }
              /\ Len(vouchers'[s]) = Cardinality(Ids(vouchers'[s]))]_vars

\* C19 witness: of two receipts that were in the list, the device has published
\* one; after the reload the list holds the other, still payment_initiated, alone.
C19_Witness ==
    \E s \in Sessions, d \in DOMAIN dbReceipts, e \in DOMAIN dbReceipts :
      /\ d # e
      /\ dbReceipts[d].status = "payment_done"
      /\ dbReceipts[d].publishedBy = uid[s]
      /\ dbReceipts[e].status = "payment_initiated"
      /\ ~fetching[s]
      /\ alert[s] = "Paid PDF uploaded and status updated"
      /\ Ids(vouchers[s]) = {e}

\* C20: the list a fetchVouchers call loads is in reverse chronological order of
\* the last status change of its records.
C20_OrderedByLastStatusChange ==
    [][\A s \in Sessions :
         PublisherListLoaded(s)
           => \A i \in DOMAIN vouchers'[s], j \in DOMAIN vouchers'[s] :
                i < j => dbReceipts[vouchers'[s][i].id].statusChangedAt
                           >= dbReceipts[vouchers'[s][j].id].statusChangedAt]_vars

\* The list of device t shows the receipts as they are stored now: the receipts at
\* payment_initiated, once each, every item with the stored fields.
ListIsCurrent(t) ==
    /\ Ids(vouchers[t]) = { d \in DOMAIN dbReceipts :
                              dbReceipts[d].status = "payment_initiated" }
    /\ Len(vouchers[t]) = Cardinality(Ids(vouchers[t]))
    /\ \A i \in DOMAIN vouchers[t] :
         vouchers[t][i] = PublisherItem(vouchers[t][i].id, dbReceipts[vouchers[t][i].id])

SignInComesBack(s, u) ==
    /\ [by |-> "signIn", user |-> u] \in profileFetch[s]
    /\ [by |-> "signIn", user |-> u] \notin profileFetch'[s]

NotYetUsable(u) == hasProfile[u] /\ (pending[u] \/ designation[u] = None)

\* C23 as the specification states it: signIn returns a profile only of a user who
\* is neither pending nor without designation; for a pending or undesignated user
\* it throws with an error recorded and the session is signed out again; it throws
\* when no profile could be fetched.
C23_PendingAlwaysSignedOut ==
    [][\A s \in Sessions, u \in Users :
         SignInComesBack(s, u) =>
           /\ ~ret'[s].threw =>
                /\ ret'[s].value # NoVal
                /\ ~ret'[s].value[1].pending
                /\ ret'[s].value[1].designation # None
                /\ ~NotYetUsable(u)
           /\ NotYetUsable(u) =>
                /\ ret'[s].threw
                /\ error'[s] # None
                /\ \/ error'[s] = "Failed to fetch user data after login"
                   \/ uid'[s] = None
           /\ ret'[s].value = NoVal => ret'[s].threw /\ error'[s] # None]_vars

\* C23, amended: signIn returns a profile only of a user who is neither pending nor
\* without designation; for a pending or undesignated user it throws with an error
\* recorded, and the session is signed out again unless signOut itself rejected, in
\* which case that rejection is the error recorded; it throws when no profile could
\* be fetched.
C23_SignInRejectsPending ==
    [][\A s \in Sessions, u \in Users :
         SignInComesBack(s, u) =>
           /\ ~ret'[s].threw =>
                /\ ret'[s].value # NoVal
                /\ ~ret'[s].value[1].pending
                /\ ret'[s].value[1].designation # None
                /\ ~NotYetUsable(u)
           /\ NotYetUsable(u) =>
                /\ ret'[s].threw
                /\ error'[s] # None
                /\ \/ error'[s] = "Failed to fetch user data after login"
                   \/ uid'[s] = None
                   \/ error'[s] = "sign out failed" /\ uid'[s] = uid[s]
           /\ ret'[s].value = NoVal => ret'[s].threw /\ error'[s] # None]_vars

\* A pending user's signIn has thrown and the session is signed out.
C23_Witness ==
    \E s \in Sessions :
      /\ ret[s] = Threw
      /\ error[s] = "Your account is pending approval"
      /\ uid[s] = None
      /\ userData[s] # NoVal

RoleScreens == {"SuperUser", "Admin", "Finance", "Voucher", "Checker", "InitiatorScreen",
                "PaymentReleasorScreen", "PayeeScreen", "Home"}

\* The profile the context holds is loaded and is pending or without designation.
PendingLoaded(s) ==
    /\ userData[s] # NoVal
    /\ userData[s][1].pending \/ userData[s][1].designation = None

\* C24: a step that takes a device to a role screen starts on AuthLoading with
\* isLoading false and a loaded profile that is neither pending nor without
\* designation; with a current user whose loaded profile is pending or without
\* designation the device stays on AuthLoading or goes to Login, and the
\* pending-approval alert is shown only after logout.
C24_RoutesOnlyApprovedProfile ==
    [][\A s \in Sessions :
         /\ (screen'[s] \in RoleScreens /\ screen'[s] # screen[s]) =>
              /\ screen[s] = "AuthLoading"
              /\ ~authLoading[s]
              /\ userData[s] # NoVal
              /\ ~PendingLoaded(s)
         /\ (screen[s] = "AuthLoading" /\ ~authLoading[s] /\ currentUser[s] # None
             /\ PendingLoaded(s)) =>
              screen'[s] \in {"AuthLoading", "Login"}
         /\ (alert[s] = None /\ alert'[s] = "Account Pending Approval") =>
              /\ PendingLoaded(s)
              /\ uid'[s] = None
              /\ screen'[s] = screen[s]]_vars

\* The pending user on AuthLoading has been logged out and is told so.
C24_Witness ==
    \E s \in Sessions :
      /\ screen[s] = "AuthLoading"
      /\ alert[s] = "Account Pending Approval"
      /\ PendingLoaded(s)
      /\ uid[s] = None

\* C25: with no profile fetch in flight and no auth-state change waiting for the
\* listener, userData is non-null only if currentUser is non-null.
C25_NoProfileWithoutUser ==
    \A s \in Sessions :
      (profileFetch[s] = {} /\ authEvent[s] = << >>) =>
        (userData[s] # NoVal => currentUser[s] # None)

\* C26: an auth-state change handed to the listener, and a fetch begun by it, lead
\* to isLoading = false, whatever the fetch yields; and isLoading turns true again
\* only in the listener's callback for a signed-in user.
C26_LoadingEnds ==
    /\ \A s \in AuthSessions : (authEvent[s] # << >>) ~> ~authLoading[s]
    /\ \A s \in AuthSessions : authLoading[s] ~> ~authLoading[s]
    /\ [][\A s \in Sessions :
            (~authLoading[s] /\ authLoading'[s]) =>
              /\ authEvent[s] # << >>
              /\ Head(authEvent[s]) # None
              /\ authEvent'[s] = Tail(authEvent[s])
              /\ currentUser'[s] = Head(authEvent[s])]_vars

\* The callback's fetch has failed and isLoading is false.
C26_Witness ==
    \E s \in AuthSessions :
      /\ ret[s].op = "fetchUserData"
      /\ ret[s].caught
      /\ ~authLoading[s]
      /\ currentUser[s] # None
      /\ userData[s] = NoVal

\* updateUser of the followed screen has written in this step.
UpdateWritten(s) ==
    /\ selectedUser[s] # NoVal
    /\ selectedUser'[s] = NoVal
    /\ alert'[s] = "User updated successfully"

\* deleteCompany of the followed screen has committed its batch in this step.
CleanUpCommitted(s) ==
    /\ del[s].pc = "commit"
    /\ alert'[s] = "Company deleted successfully"

\* deleteCompany of the followed screen ends in its catch in this step.
DeleteFailsPartWay(s) ==
    /\ del[s].pc \in {"getDocs", "commit"}
    /\ alert'[s] = "Could not delete company"
    /\ del'[s].pc = "idle"

\* C22: a profile comes into being pending and unapproved, is never deleted, and
\* a write of updateUser or of deleteCompany's clean-up is made by a device whose
\* user holds the designation superuser when it writes.
C22_OnlySuperuserMutatesProfiles ==
    [][/\ \A u \in Users :
            /\ hasProfile[u] => hasProfile'[u]
            /\ (~hasProfile[u] /\ hasProfile'[u]) => (pending'[u] /\ ~approved'[u])
       /\ \A s \in Sessions :
            (UpdateWritten(s) \/ CleanUpCommitted(s)) =>
              /\ uid[s] # None
              /\ designation[uid[s]] = "superuser"]_vars

\* Every stored profile: not both pending and approved; approved only when not
\* pending and with a designation.
ProfileFlagsConsistent ==
    \A u \in Users :
      hasProfile[u] =>
        /\ ~(pending[u] /\ approved[u])
        /\ approved[u] => (~pending[u] /\ designation[u] # None)

\* C27: every stored profile has consistent flags; signUp creates the profile with
\* pending = true and approved = false; updateUser sets pending = false and
\* approved = true, with the designation, exactly when its form holds a role.
C27_PendingApprovedConsistent ==
    /\ []ProfileFlagsConsistent
    /\ [][/\ \A u \in Users :
               (~hasProfile[u] /\ hasProfile'[u]) => (pending'[u] /\ ~approved'[u])
          /\ \A s \in Sessions :
               UpdateWritten(s) =>
                 LET u == selectedUser[s][1].id
                 IN  IF userForm[s].role # None
                     THEN /\ ~pending'[u]
                          /\ approved'[u]
                          /\ designation'[u] = userForm[s].role
                     ELSE /\ pending'[u] = pending[u]
                          /\ approved'[u] = approved[u]
                          /\ designation'[u] = designation[u]]_vars

\* The user who signed up has been given a role on the followed screen.
C27_Witness ==
    /\ hasProfile["u2"]
    /\ approved["u2"]
    /\ ~pending["u2"]
    /\ designation["u2"] = "checker"
    /\ \E s \in AdminSessions : alert[s] = "User updated successfully"

\* C28: when deleteCompany(c) has committed, no profile has company = c; and when
\* it ends in its catch after the first await, it is not the case that the company
\* document is gone while a profile still has company = c.
C28_DeletedCompanyUnreferenced ==
    [][\A s \in Sessions :
         /\ CleanUpCommitted(s) =>
              \A u \in Users : hasProfile'[u] => company'[u] # del[s].company
         /\ DeleteFailsPartWay(s) =>
              ~(/\ del[s].company \notin companies'
                /\ \E u \in Users : hasProfile'[u] /\ company'[u] = del[s].company)]_vars

\* The roles that take a record along the transition graph: those of the role
\* options and the publisher of PublisherScreen.
WorkflowRoles == RoleOptions \cup {"publisher"}

\* C29: every role of the role options is routed to a screen of its own, not to
\* Home; and with the edit modal open, every role that performs a workflow
\* transition, publisher included, is offered under some user type and has a
\* route other than Home.
C29_EveryWorkflowRoleAssignableAndRouted ==
    /\ \A r \in RoleOptions : Route(r) # "Home"
    /\ \A r1 \in RoleOptions, r2 \in RoleOptions : Route(r1) = Route(r2) => r1 = r2
    /\ \A s \in AdminSessions :
         ModalOpen(s) =>
           \A r \in WorkflowRoles :
             /\ \E ty \in UserTypes : r \in RoleOptionsOf(ty)
             /\ Route(r) # "Home"

\* The call sites give one category for any company and designation.
CallSitesAgree(c, d) ==
    /\ ListBadgeText(c, d) = FetchUsersUserType(c, d)
    /\ ModalBadgeText(c, d) = FetchUsersUserType(c, d)
    /\ UserTypeLabel(FormUserType(c, d)) = FetchUsersUserType(c, d)

\* C30: the call sites compute the same category for every stored profile and for
\* the selected item; and after updateUser has written a form with a role, the
\* category of the stored profile is the form's user type.
C30_StoredCategoryIsSelectedType ==
    /\ [](/\ \A u \in Users : CallSitesAgree(company[u], designation[u])
          /\ \A s \in Sessions :
               selectedUser[s] # NoVal =>
                 CallSitesAgree(selectedUser[s][1].company,
                                selectedUser[s][1].designation))
    /\ [][\A s \in Sessions :
            (UpdateWritten(s) /\ userForm[s].role # None) =>
              LET u == selectedUser[s][1].id
              IN  FetchUsersUserType(company'[u], designation'[u])
                    = UserTypeLabel(userForm[s].userType)]_vars

====
